---------------------------- MODULE Spec2Model ----------------------------
(***************************************************************************)
(* Underwater optical link simulator (final_ver.py): the attenuation       *)
(* model, the intensity solve, the wavelength sweep, the link evaluation   *)
(* and the form handler SimulationGUI.start_simulation.                    *)
(*                                                                         *)
(* Floats are fixed-point numbers with six decimals: the integer v stands  *)
(* for v / 10^6.  A float value is a record [k, v]: k = "fin" for a finite *)
(* number, "inf" for a non-finite one (float("inf")), "unset" for a module *)
(* global that no submission has assigned yet.                             *)
(***************************************************************************)
EXTENDS Integers, Sequences, FiniteSets, TLC

\* 1.0 in fixed point.
One == 1000 * 1000

Abs(x) == IF x < 0 THEN -x ELSE x
Sgn(x) == IF x < 0 THEN -1 ELSE 1
Min(x, y) == IF x <= y THEN x ELSE y

\* An assignment "v = e" followed by the statements F that read v: e is
\* evaluated once, to a value.
Let(e, F(_)) == CHOOSE r \in {F(v) : v \in {e}} : TRUE

\* Fixed-point product of two non-negative numbers, split in limbs of 10^3 so
\* that no partial product leaves 32 bits.
MulPos(a, b) ==
    LET ah == a \div 1000
        al == a % 1000
        bh == b \div 1000
        bl == b % 1000
    IN  ah * bh + (ah * bl + al * bh) \div 1000 + (al * bl) \div One

\* Fixed-point product x * y, rounded toward zero.
Mul(x, y) ==
    CHOOSE r \in {Sgn(a) * Sgn(b) * MulPos(Abs(a), Abs(b)) :
                     a \in {x}, b \in {y}} : TRUE

\* Integer quotient rounded toward zero (d > 0).
Quot(x, d) == CHOOSE r \in {Sgn(a) * (Abs(a) \div d) : a \in {x}} : TRUE

\* format(x, ".<decimals>f"): x rounded to the given number of decimals, as the
\* count of units of 10^-decimals; unit = 10^(6 - decimals).  Half-way cases go
\* to the even neighbour.
FormatFixed(x, unit) ==
    LET q == Abs(x) \div unit
        r == Abs(x) % unit
        up == (2 * r > unit) \/ (2 * r = unit /\ q % 2 = 1)
    IN  Sgn(x) * (IF up THEN q + 1 ELSE q)

-----------------------------------------------------------------------------
\* Module constants.
I0 == 1000000
h == 1000000
DEFAULT_RANGE == <<400 * One, 600 * One>>
DEFAULT_NUM_POINTS == 100


\* The formula without its clamp.
lambda_opt_unclamped(turbidity) == 450 * One + turbidity * 10

\* lambda_opt = 450 + min(turbidity * 10, 100), the absorption-minimum wavelength
\* of the attenuation model.
lambda_opt(turbidity) == 450 * One + Min(turbidity * 10, 100 * One)

\* compute_attenuation_coefficient: g holds the module globals a0, b0, z_max
\* the function reads.  Returns a float record; "unset" stands for the
\* NameError of reading a global that was never assigned.
compute_attenuation_coefficient(wavelength, env_data, g) ==
    LET turbidity == env_data.turbidity
        d == wavelength - lambda_opt(turbidity)
        a == g.a0.v + Mul(Mul(50, d), d)
        b == Mul(Mul(g.b0.v, Mul(turbidity, turbidity)), Quot(wavelength, 500))
    IN  IF g.a0.k = "unset" \/ g.b0.k = "unset" THEN [k |-> "unset", v |-> 0]
        ELSE IF g.a0.k = "inf" THEN [k |-> "inf", v |-> 0]
        ELSE [k |-> "fin", v |-> a + b]

\* intensity_derivative(z, I, c) = -c * I
intensity_derivative(z, I, c) == -Mul(c, I)

\* One explicit Runge-Kutta step of size dz from (z, I).
rk_step(z, I, c, dz) ==
    Let(intensity_derivative(z, I, c), LAMBDA k1 :
    Let(intensity_derivative(z + Quot(dz, 2), I + Mul(Quot(dz, 2), k1), c), LAMBDA k2 :
    Let(intensity_derivative(z + Quot(dz, 2), I + Mul(Quot(dz, 2), k2), c), LAMBDA k3 :
    Let(intensity_derivative(z + dz, I + Mul(dz, k3), c), LAMBDA k4 :
        I + Quot(Mul(dz, k1 + 2 * k2 + 2 * k3 + k4), 6)))))

\* p^n in fixed point, by repeated squaring.
RECURSIVE Pow(_, _)
Pow(p, n) ==
    IF n = 0 THEN One
    ELSE Let(Pow(p, n \div 2), LAMBDA r :
             IF n % 2 = 1 THEN Mul(Mul(r, r), p) ELSE Mul(r, r))

\* Number of steps the solver takes: the step is kept so small that c * dz
\* stays below one tenth.
StepCount(c, zmax) == MulPos(Abs(c), Abs(zmax)) \div (One \div 10) + 1

\* The integration over [0, zmax] in n equal steps.  The equation is linear in
\* I with constant c, so every step multiplies I by the same factor, the
\* result of one step from unit intensity.
rk_integrate(I, c, zmax) ==
    Let(StepCount(c, zmax), LAMBDA n :
    Let(rk_step(0, One, c, Quot(zmax, n)), LAMBDA factor :
        Mul(I, Pow(factor, n))))

\* solve_ivp(ode_fun, [0, z_max], [I0], method='RK45', t_eval=[z_max]).
\* An empty interval is finished before any step: the sample is I0.  Otherwise
\* a non-finite coefficient makes the first step size 0: the solver gives up
\* (step size too small) and the solution holds no sample.
solve_ivp(c, zmax) ==
    IF zmax = 0 THEN [success |-> TRUE, y |-> <<I0>>]
    ELSE IF c.k # "fin" THEN [success |-> FALSE, y |-> << >>]
    ELSE [success |-> TRUE, y |-> <<rk_integrate(I0, c.v, zmax)>>]

\* sol.y[0, -1]: the last sample of the solution.  A failed solve returns y as
\* an empty list, and indexing it with a tuple raises TypeError.
compute_intensity_numerical(wavelength, env_data, g) ==
    Let(compute_attenuation_coefficient(wavelength, env_data, g), LAMBDA c :
        IF c.k = "unset" \/ g.z_max.k = "unset"
        THEN [exc |-> "NameError", val |-> 0]
        ELSE Let(solve_ivp(c, g.z_max.v), LAMBDA sol :
                 IF sol.y = << >> THEN [exc |-> "TypeError", val |-> 0]
                 ELSE [exc |-> "none", val |-> sol.y[Len(sol.y)]]))


\* A linspace that leaves the end point out (endpoint=False).
linspace_open(start, stop, num) ==
    IF num < 0 THEN [exc |-> "ValueError", val |-> << >>]
    ELSE LET step == IF num > 0 THEN Quot(stop - start, num) ELSE 0
         IN  [exc |-> "none", val |-> [i \in 1..num |-> start + (i - 1) * step]]

\* np.linspace(start, stop, num): num samples from start, the step being
\* (stop - start) / (num - 1); the last sample is set to stop itself.
linspace(start, stop, num) ==
    IF num < 0 THEN [exc |-> "ValueError", val |-> << >>]
    ELSE LET div == num - 1
             step == IF div > 0 THEN Quot(stop - start, div) ELSE 0
         IN  [exc |-> "none",
              val |-> [i \in 1..num |->
                          IF num > 1 /\ i = num THEN stop
                          ELSE start + (i - 1) * step]]

\* np.argmax: the first index holding the maximum (1-based here).
argmax(xs) ==
    CHOOSE i \in 1..Len(xs) :
        /\ \A j \in 1..Len(xs) : xs[j] <= xs[i]
        /\ \A j \in 1..(i - 1) : xs[j] < xs[i]

\* ai_predict_optimal_wavelength.  The result records, besides the returned
\* triple, how the call ended and how many samples were simulated: the list
\* comprehension stops at the first sample whose simulation raises.
ai_predict_optimal_wavelength(env_data, wavelength_range, num_points, g) ==
    LET none == [exc |-> "none", optimal_wavelength |-> 0,
                 intensities |-> << >>, wavelengths |-> << >>, solves |-> 0]
    IN
    Let(linspace(wavelength_range[1], wavelength_range[2], num_points), LAMBDA ls :
    Let(ls.val, LAMBDA wavelengths :
    Let([i \in 1..Len(wavelengths) |->
            compute_intensity_numerical(wavelengths[i], env_data, g)], LAMBDA sims :
    Let({i \in 1..Len(sims) : sims[i].exc # "none"}, LAMBDA failed :
    Let([i \in 1..Len(sims) |-> Mul(h, sims[i].val)], LAMBDA intensities :
        IF ls.exc # "none" THEN [none EXCEPT !.exc = ls.exc]
        ELSE IF failed # {}
            THEN LET first == CHOOSE i \in failed : \A j \in failed : i <= j
                 IN  [none EXCEPT !.exc = sims[first].exc, !.solves = first]
        ELSE IF Len(wavelengths) = 0 THEN [none EXCEPT !.exc = "ValueError"]
        ELSE [exc |-> "none",
              optimal_wavelength |-> wavelengths[argmax(intensities)],
              intensities |-> intensities,
              wavelengths |-> wavelengths,
              solves |-> Len(wavelengths)])))))

\* A transmit_data that simulates at the absorption minimum, not at the
\* wavelength it is given.
transmit_at_lambda_opt(optimal_wavelength, env_data, g) ==
    Let(compute_intensity_numerical(lambda_opt(env_data.turbidity), env_data, g),
        LAMBDA r : [exc |-> r.exc, val |-> Mul(h, r.val)])

\* transmit_data
transmit_data(optimal_wavelength, env_data, g) ==
    Let(compute_intensity_numerical(optimal_wavelength, env_data, g), LAMBDA r :
        [exc |-> r.exc, val |-> Mul(h, r.val)])
-----------------------------------------------------------------------------
(***************************************************************************)
(* The form.  float() is modelled on the texts below: a text of Numeric    *)
(* parses to the number it spells, any other text raises ValueError.       *)
(***************************************************************************)
Fin(v) == [k |-> "fin", v |-> v]
Inf == [k |-> "inf", v |-> 0]
Unset == [k |-> "unset", v |-> 0]

Numeric ==
    [t \in {"50.0", "1.0", "0", "-0.1", "0.05", "-0.01", "inf", "0.02",
            "0.01", "20.0", "35.0", "0.123", "10", "12.0"} |->
        CASE t = "50.0" -> Fin(50 * One)
          [] t = "1.0" -> Fin(One)
          [] t = "0" -> Fin(0)
          [] t = "-0.1" -> Fin(-100000)
          [] t = "0.05" -> Fin(50000)
          [] t = "-0.01" -> Fin(-10000)
          [] t = "inf" -> Inf
          [] t = "0.02" -> Fin(20000)
          [] t = "0.01" -> Fin(10000)
          [] t = "20.0" -> Fin(20 * One)
          [] t = "35.0" -> Fin(35 * One)
          [] t = "0.123" -> Fin(123000)
          [] t = "10" -> Fin(10 * One)
          [] t = "12.0" -> Fin(12 * One)]

\* float(text)
ParseFloat(text) ==
    IF text \in DOMAIN Numeric THEN [ok |-> TRUE, val |-> Numeric[text]]
    ELSE [ok |-> FALSE, val |-> Unset]

\* The entries in the order start_simulation reads them.
Fields ==
    <<"z_max", "a0", "b0", "threshold", "temperature", "salinity", "turbidity">>

\* What create_widgets puts in the entries: str(default).
Defaults ==
    [z_max |-> "50.0", a0 |-> "0.05", b0 |-> "0.02", threshold |-> "0.05",
     temperature |-> "20.0", salinity |-> "35.0", turbidity |-> "1.0"]

\* The texts a user types into each entry.
Texts ==
    [z_max |-> {"50.0", "1.0", "0", "-0.1", "abc"},
     a0 |-> {"0.05", "-0.01", "0", "inf", "a"},
     b0 |-> {"0.02", ""},
     threshold |-> {"0.05", "0.01", "5%"},
     temperature |-> {"20.0", "warm"},
     salinity |-> {"35.0", "3,5"},
     turbidity |-> {"1.0", "0", "0.123", "10", "12.0", "murky"}]


\* A try block that reads turbidity outside it.
FirstBadButTurbidity(f) ==
    IF \A i \in 1..6 : ParseFloat(f[Fields[i]]).ok THEN 8
    ELSE CHOOSE i \in 1..6 :
            /\ ~ParseFloat(f[Fields[i]]).ok
            /\ \A j \in 1..(i - 1) : ParseFloat(f[Fields[j]]).ok

\* Index in Fields of the first entry that does not parse, 8 when all do.
FirstBad(f) ==
    IF \A i \in 1..7 : ParseFloat(f[Fields[i]]).ok THEN 8
    ELSE CHOOSE i \in 1..7 :
            /\ ~ParseFloat(f[Fields[i]]).ok
            /\ \A j \in 1..(i - 1) : ParseFloat(f[Fields[j]]).ok

\* The forms a user submits.  start_simulation stops reading at the first
\* entry that does not parse, so the entries after it keep their default text;
\* and turbidity * |z_max| stays within MaxDepth, beyond which every intensity
\* of a sweep is below 10^-6, the smallest the fixed point holds.
MaxDepth == 50

Readable(f) ==
    FirstBad(f) = 8 =>
        Mul(ParseFloat(f.turbidity).val.v, Abs(ParseFloat(f.z_max).val.v))
            <= MaxDepth * One

Entries ==
    [z_max : Texts.z_max, a0 : Texts.a0, b0 : Texts.b0,
     threshold : Texts.threshold, temperature : Texts.temperature,
     salinity : Texts.salinity, turbidity : Texts.turbidity]

Forms ==
    {f \in Entries :
        /\ \A i \in 1..7 : i > FirstBad(f) => f[Fields[i]] = Defaults[Fields[i]]
        /\ Readable(f)}

\* env_data as start_simulation builds it from the entries.
EnvOf(f) ==
    [temperature |-> ParseFloat(f.temperature).val.v,
     salinity |-> ParseFloat(f.salinity).val.v,
     turbidity |-> ParseFloat(f.turbidity).val.v]

\* The module globals as start_simulation assigns them from the entries.
GlobalsOf(f) ==
    [z_max |-> ParseFloat(f.z_max).val,
     a0 |-> ParseFloat(f.a0).val,
     b0 |-> ParseFloat(f.b0).val]

\* Lines 104-105 of start_simulation: the sweep with its default range and
\* number of points, then transmit_data at the optimum it returned.
evaluate_link(env_data, g) ==
    Let(ai_predict_optimal_wavelength(env_data, DEFAULT_RANGE,
                                      DEFAULT_NUM_POINTS, g), LAMBDA sweep :
        [sweep |-> sweep,
         received |-> IF sweep.exc = "none"
                      THEN transmit_data(sweep.optimal_wavelength, env_data, g)
                      ELSE [exc |-> sweep.exc, val |-> 0]])

\* evaluate_link on every input the entries can give it, computed once.
Evaluated ==
    [key \in {<<EnvOf(f), GlobalsOf(f)>> : f \in {x \in Entries : FirstBad(x) = 8}}
        |-> evaluate_link(key[1], key[2])]

Lookup(env_data, g) ==
    IF <<env_data, g>> \in DOMAIN Evaluated THEN Evaluated[<<env_data, g>>]
    ELSE evaluate_link(env_data, g)

-----------------------------------------------------------------------------
VARIABLES
    z_max, a0, b0,  \* the module globals start_simulation assigns
    entries,        \* the text of the seven entries
    outcome,        \* how the last run of start_simulation ended
    log,            \* the lines that run inserted into log_widget
    cleared,        \* whether that run deleted the old log first
    ret,            \* that run's locals: optimum, received intensity, samples
    plotted,        \* whether that run drew the figure
    calls,          \* the core calls that run made
    kept,           \* an earlier evaluation, remembered: its entries and result
    call,           \* a direct call of the sweep: its arguments
    answer          \* what that call returned

vars == <<z_max, a0, b0, entries, outcome, log, cleared, ret, plotted, calls,
          kept, call, answer>>

NoResult ==
    [optimal_wavelength |-> 0, received_intensity |-> 0,
     intensities |-> << >>, wavelengths |-> << >>]
NoCalls == [sweep |-> 0, solve |-> 0, transmit |-> 0]
NoKept == [entries |-> Defaults, ret |-> NoResult, set |-> FALSE, gap |-> FALSE]
NoCall == [env_data |-> EnvOf(Defaults), range |-> DEFAULT_RANGE, num_points |-> 0]
NoAnswer ==
    [exc |-> "pending", optimal_wavelength |-> 0, intensities |-> << >>,
     wavelengths |-> << >>, solves |-> 0]

\* The state once SimulationGUI() is constructed: the entries hold the
\* defaults and the globals z_max, a0, b0 are not assigned yet.
GuiInit ==
    /\ entries = Defaults
    /\ outcome = "idle"
    /\ log = << >>
    /\ cleared = FALSE
    /\ ret = NoResult
    /\ plotted = FALSE
    /\ calls = NoCalls
    /\ kept = NoKept

Init ==
    /\ GuiInit
    /\ z_max = Unset /\ a0 = Unset /\ b0 = Unset
    /\ call = NoCall /\ answer = NoAnswer

\* lambda_opt_theoretical, start_simulation's own copy of the formula.
lambda_opt_theoretical(turb) == 450 * One + Min(turb * 10, 100 * One)

\* The head of the log a run writes once every entry parsed: the header, the
\* three env_data lines with two decimals, lambda_opt with one decimal.
EnvLines(env_data) ==
    <<<<"Environmental Data:", 0>>,
      <<"Temperature", FormatFixed(env_data.temperature, 10000)>>,
      <<"Salinity", FormatFixed(env_data.salinity, 10000)>>,
      <<"Turbidity", FormatFixed(env_data.turbidity, 10000)>>,
      <<"lambda_opt (absorption min)",
        FormatFixed(lambda_opt_theoretical(env_data.turbidity), 100000)>> >>

InvalidInput == <<"Invalid input. Please enter numeric values.", 0>>


\* Assignments that take effect only when every entry parsed.
AssignGlobalsAtomic(f, bad) ==
    /\ z_max' = IF bad > 7 THEN ParseFloat(f.z_max).val ELSE z_max
    /\ a0' = IF bad > 7 THEN ParseFloat(f.a0).val ELSE a0
    /\ b0' = IF bad > 7 THEN ParseFloat(f.b0).val ELSE b0

\* The assignments to the globals inside the try block: they run in the order
\* z_max, a0, b0, each only if every float() before it succeeded.
AssignGlobals(f, bad) ==
    /\ z_max' = IF bad > 1 THEN ParseFloat(f.z_max).val ELSE z_max
    /\ a0' = IF bad > 2 THEN ParseFloat(f.a0).val ELSE a0
    /\ b0' = IF bad > 3 THEN ParseFloat(f.b0).val ELSE b0


\* A core that reads the depth the run before left, when there was one.
ReadGlobalsStale ==
    [z_max |-> IF z_max.k = "unset" THEN z_max' ELSE z_max, a0 |-> a0', b0 |-> b0']

\* The globals the core functions read when start_simulation calls them: the
\* values it has just assigned.
ReadGlobals == [z_max |-> z_max', a0 |-> a0', b0 |-> b0']

\* What start_simulation does after the try block.
Evaluate(f) ==
    \E env_data \in {EnvOf(f)} : \E link \in {Lookup(env_data, ReadGlobals)} :
        IF link.sweep.exc # "none"
        THEN \* the exception leaves start_simulation
             /\ outcome' = link.sweep.exc
             /\ log' = EnvLines(env_data)
             /\ cleared' = TRUE
             /\ ret' = NoResult
             /\ plotted' = FALSE
             /\ calls' = [sweep |-> 1, solve |-> link.sweep.solves, transmit |-> 0]
        ELSE /\ outcome' = "done"
             /\ log' = EnvLines(env_data) \o
                  <<<<"Optimal Wavelength",
                      FormatFixed(link.sweep.optimal_wavelength, 10000)>>,
                    <<"Received Intensity", FormatFixed(link.received.val, 100)>>,
                    IF link.received.val >= ParseFloat(f.threshold).val.v
                    THEN <<"Signal strength sufficient.", 0>>
                    ELSE <<"Signal strength low.", 0>> >>
             /\ cleared' = TRUE
             /\ ret' = [optimal_wavelength |-> link.sweep.optimal_wavelength,
                        received_intensity |-> link.received.val,
                        intensities |-> link.sweep.intensities,
                        wavelengths |-> link.sweep.wavelengths]
             /\ plotted' = TRUE
             /\ calls' = [sweep |-> 1, solve |-> link.sweep.solves + 1,
                          transmit |-> 1]

\* The user fills the entries with f and presses "Start Simulation".
StartSimulation(f) ==
    \E bad \in {FirstBad(f)} :
        /\ entries' = f
        /\ AssignGlobals(f, bad)
        /\ IF bad <= 7
           THEN \* except ValueError
                /\ outcome' = "rejected"
                /\ log' = <<InvalidInput>>
                /\ cleared' = FALSE
                /\ ret' = NoResult
                /\ plotted' = FALSE
                /\ calls' = NoCalls
           ELSE Evaluate(f)
        /\ UNCHANGED <<call, answer>>

\* A later submission: whether it differs from the remembered one.
Later == [kept EXCEPT !.gap = @ \/ (kept.set /\ entries' # kept.entries)]

Submit == \E f \in Forms : StartSimulation(f) /\ kept' = Later

Next == Submit

Spec == Init /\ [][Next]_vars

-----------------------------------------------------------------------------
(***************************************************************************)
(* Two evaluations compared: one evaluation is remembered, with its        *)
(* entries, and any submissions follow it.                                 *)
(***************************************************************************)
MaxEdits == 1

\* The forms whose evaluation may be remembered: those that differ from the
\* defaults in at most MaxEdits entries.
Watched ==
    {f \in Forms :
        /\ FirstBad(f) = 8
        /\ Cardinality({i \in 1..7 : f[Fields[i]] # Defaults[Fields[i]]}) <= MaxEdits}

SubmitAndKeep ==
    \E f \in Watched :
        /\ ~kept.set
        /\ StartSimulation(f)
        /\ outcome' = "done"
        /\ kept' = [entries |-> f, ret |-> ret', set |-> TRUE, gap |-> FALSE]

RepeatNext == Submit \/ SubmitAndKeep

RepeatSpec == Init /\ [][RepeatNext]_vars

-----------------------------------------------------------------------------
(***************************************************************************)
(* ai_predict_optimal_wavelength called directly, the globals being what   *)
(* an earlier submission left.                                             *)
(***************************************************************************)
MaxPoints == 4

Ranges ==
    {<<400 * One, 600 * One>>, <<440 * One, 460 * One>>, <<460 * One, 440 * One>>,
     <<600 * One, 400 * One>>, <<450 * One, 450 * One>>}

SweepInit ==
    /\ GuiInit
    /\ z_max \in {Fin(50 * One), Fin(One)}
    /\ a0 \in {Fin(50000), Fin(0)}
    /\ b0 \in {Fin(20000)}
    /\ call \in [env_data : {EnvOf([Defaults EXCEPT !.turbidity = t]) :
                                 t \in {"1.0", "0"}},
                 range : Ranges,
                 num_points : -1..MaxPoints]
    /\ answer = NoAnswer

CallSweep ==
    /\ answer.exc = "pending"
    /\ answer' = ai_predict_optimal_wavelength(
                     call.env_data, call.range, call.num_points,
                     [z_max |-> z_max, a0 |-> a0, b0 |-> b0])
    /\ UNCHANGED <<z_max, a0, b0, entries, outcome, log, cleared, ret, plotted,
                   calls, kept, call>>

SweepNext == CallSweep

SweepSpec == SweepInit /\ [][SweepNext]_vars

-----------------------------------------------------------------------------
(***************************************************************************)
(* Properties.                                                             *)
(***************************************************************************)
\* The entries of f, by their place in Fields, that float() rejects.
Unparsable(f) == {i \in 1..7 : f[Fields[i]] \notin DOMAIN Numeric}
FirstUnparsable(f) == CHOOSE i \in Unparsable(f) : \A j \in Unparsable(f) : i <= j
Number(text) == Numeric[text]
NoResultLine ==
    \A i \in 1..Len(log) : log[i][1] \notin {"Optimal Wavelength", "Received Intensity"}

\* C1: an evaluation whose entries equal those of a remembered earlier
\* evaluation returns the same optimum, received intensity and samples,
\* whatever was submitted in between.
C1_RepeatedEvaluationAgrees ==
    (kept.set /\ outcome = "done" /\ entries = kept.entries) => ret = kept.ret

C1_RepeatedAfterOthers ==
    /\ kept.set /\ kept.gap
    /\ outcome = "done" /\ entries = kept.entries
    /\ Len(ret.intensities) = DEFAULT_NUM_POINTS

\* C2: when every entry parses but a0 <= 0, z_max <= 0 or I0 <= 0, the run ends
\* with InvalidParameter and has computed, logged and plotted nothing.
C2_InvalidParameterSurfaced ==
    (/\ outcome # "idle"
     /\ Unparsable(entries) = {}
     /\ \/ (a0.k = "fin" /\ a0.v <= 0)
        \/ (z_max.k = "fin" /\ z_max.v <= 0)
        \/ I0 <= 0)
    => (/\ outcome = "InvalidParameter"
        /\ calls = NoCalls
        /\ ret = NoResult
        /\ NoResultLine
        /\ ~plotted)

\* C3: a direct sweep with num_points < 1 or with range.lo >= range.hi ends
\* with an error and returns no samples and no optimum.
C3_DegenerateSweepFails ==
    (/\ answer.exc # "pending"
     /\ (call.num_points < 1 \/ call.range[1] >= call.range[2]))
    => (answer.exc # "none" /\ answer.wavelengths = << >>)

\* C4: when some entry does not parse, the run is rejected: it makes no core
\* call, inserts only the invalid-input line, draws nothing.
C4_UnparsedNeverReachesCore ==
    (outcome # "idle" /\ Unparsable(entries) # {})
    => (/\ outcome = "rejected"
        /\ calls = NoCalls
        /\ log = <<InvalidInput>>
        /\ ~cleared
        /\ ~plotted
        /\ ret = NoResult)

C4_TurbidityRejected ==
    /\ outcome = "rejected"
    /\ Unparsable(entries) = {7}
    /\ calls = NoCalls

\* C5: a sweep that returns gives a sampled wavelength of maximal intensity,
\* and the lowest wavelength among the samples of maximal intensity.
C5_ArgmaxLowestWavelength ==
    answer.exc = "none" =>
        \E i \in 1..Len(answer.wavelengths) :
            /\ answer.optimal_wavelength = answer.wavelengths[i]
            /\ \A j \in 1..Len(answer.intensities) :
                  /\ answer.intensities[j] <= answer.intensities[i]
                  /\ answer.intensities[j] = answer.intensities[i]
                        => answer.optimal_wavelength <= answer.wavelengths[j]

\* C6: after a completed run the received intensity is the intensity the
\* sweep recorded at the optimal wavelength, and no sample exceeds it.
C6_ReceivedIsSweepMaximum ==
    outcome = "done" =>
        \E i \in 1..Len(ret.wavelengths) :
            /\ ret.wavelengths[i] = ret.optimal_wavelength
            /\ ret.intensities[i] = ret.received_intensity
            /\ \A j \in 1..Len(ret.intensities) :
                  ret.intensities[j] <= ret.received_intensity

C6_CompletedRun ==
    /\ outcome = "done"
    /\ Len(ret.intensities) = DEFAULT_NUM_POINTS
    /\ ret.received_intensity > 0
    /\ ret.received_intensity < I0
    /\ calls.transmit = 1

\* C7: a run whose sweep was cut short by a failed solve ends with
\* IntegrationFailure, and returns and draws nothing.
C7_IntegrationFailureSignalled ==
    (calls.sweep = 1 /\ outcome # "done")
    => (outcome = "IntegrationFailure" /\ ret = NoResult /\ ~plotted)

\* C8: for turbidity >= 0 the attenuation model's lambda_opt lies in
\* [450, 550], is 450 at turbidity 0 and 550 from turbidity 10 on, and the
\* lambda_opt line of the log shows that value (to its one decimal).
C8_LambdaOptClampedAndLogged ==
    (outcome \in {"done", "TypeError"} /\ Number(entries.turbidity).v >= 0) =>
        LET t == Number(entries.turbidity).v
            l == lambda_opt(t)
        IN  /\ 450 * One <= l /\ l <= 550 * One
            /\ t = 0 => l = 450 * One
            /\ t >= 10 * One => l = 550 * One
            /\ log[5] = <<"lambda_opt (absorption min)", FormatFixed(l, 100000)>>

C8_ClampedRun ==
    /\ outcome = "done"
    /\ Number(entries.turbidity).v > 10 * One
    /\ log[5][2] = 5500

\* C9 as stated: for num_points >= 1 the sweep returns num_points wavelengths
\* in ascending order, evenly spaced, the first being range.lo and the last
\* range.hi, with one intensity each; a single sample is the optimum.
EvenlySpaced(w, lo, hi) ==
    \A i \in 1..(Len(w) - 1) :
        Abs((w[i + 1] - w[i]) * (Len(w) - 1) - (hi - lo)) < Len(w) * Len(w)

C9_SweepAscendingBothEndpoints ==
    (answer.exc # "pending" /\ call.num_points >= 1) =>
        LET w == answer.wavelengths
            n == call.num_points
        IN  /\ answer.exc = "none"
            /\ Len(w) = n /\ Len(answer.intensities) = n
            /\ \A i \in 1..(n - 1) : w[i] <= w[i + 1]
            /\ EvenlySpaced(w, call.range[1], call.range[2])
            /\ w[1] = call.range[1] /\ w[n] = call.range[2]
            /\ n = 1 => answer.optimal_wavelength = w[1]

\* C9 amended: the wavelengths start at range.lo and advance in num_points - 1
\* equal steps to range.hi, so they ascend when lo <= hi and descend when
\* lo > hi; range.hi is a sample only when num_points >= 2 (or lo = hi); a
\* single sample is range.lo, and it is the optimum.
C9_SweepFromLoInEqualSteps ==
    (answer.exc # "pending" /\ call.num_points >= 1) =>
        LET w == answer.wavelengths
            n == call.num_points
            lo == call.range[1]
            hi == call.range[2]
        IN  /\ answer.exc = "none"
            /\ Len(w) = n /\ Len(answer.intensities) = n
            /\ \A i \in 1..(n - 1) :
                  IF lo <= hi THEN w[i] <= w[i + 1] ELSE w[i] > w[i + 1]
            /\ EvenlySpaced(w, lo, hi)
            /\ w[1] = lo
            /\ n >= 2 => w[n] = hi
            /\ n = 1 => answer.optimal_wavelength = lo

C9_SingleSample ==
    /\ answer.exc = "none"
    /\ call.num_points = 1
    /\ call.range[1] < call.range[2]
    /\ answer.wavelengths = <<call.range[1]>>

\* C10 as stated: a rejected submission leaves z_max, a0 and b0 as they were.
C10_RejectedKeepsGlobals ==
    [][outcome' = "rejected" => (z_max' = z_max /\ a0' = a0 /\ b0' = b0)]_vars

\* C10 amended: a rejected submission leaves unchanged the globals whose entry
\* is, in the order z_max, a0, b0, at or after the first entry that does not
\* parse; a global whose entry comes before it holds the entry's value.
C10_RejectedKeepsUnreadGlobals ==
    [][outcome' = "rejected" =>
        LET bad == FirstUnparsable(entries')
        IN  /\ z_max' = IF bad > 1 THEN Number(entries'.z_max) ELSE z_max
            /\ a0' = IF bad > 2 THEN Number(entries'.a0) ELSE a0
            /\ b0' = IF bad > 3 THEN Number(entries'.b0) ELSE b0]_vars

C10_RejectedAfterAssigning ==
    /\ outcome = "rejected"
    /\ FirstUnparsable(entries) = 3
    /\ z_max = Number(entries.z_max)
    /\ a0 = Number(entries.a0)
    /\ b0 = Unset
=============================================================================
